---- MODULE Spec2Model ----
(***************************************************************************)
(* Model of skills/cranelift-debugging/scripts/sigsegv_handler.rs: a       *)
(* process-wide crash handler that prints a diagnostic block and pauses    *)
(* the faulting thread on a one-byte stdin read, guarded by the atomic     *)
(* flag CAUGHT.                                                            *)
(*                                                                         *)
(* The process is a set of threads.  Every thread has a user-level         *)
(* position (idle or inside install()) and a stack of handler invocations  *)
(* running on top of it.  Signal delivery, the operator's input and an     *)
(* external kill are the environment.                                      *)
(*                                                                         *)
(* libc::signal is modelled with the semantics it has on the targets the   *)
(* script names (Linux, macOS: lldb / gdb): the handler stays installed    *)
(* after a delivery, and the delivered signal is blocked on the thread     *)
(* while its handler runs.  Writes to stderr are assumed to succeed, and    *)
(* so are the registrations (their return value is not looked at).  The    *)
(* signals that reach handler are hardware faults: the trapping            *)
(* instruction is executed again when handler returns.  install() is one   *)
(* step: its four registrations store the same value whatever the order.   *)
(***************************************************************************)
EXTENDS Integers, Sequences, FiniteSets, TLC

\* ---- bounds of the model ----
NumThreads == 2       \* threads of the process
MaxEntries == 2       \* handler invocations over the life of the process
MaxInstalls == 2      \* calls of install() over the life of the process
MaxInput == 1         \* bytes the operator types

Threads == 1..NumThreads
Pids == {4242}        \* the value std::process::id() has
Bytes == {10, 120}    \* '\n' and 'x'

\* ---- signal numbers (libc, Linux numbering) ----
SIGILL == 4
SIGABRT == 6
SIGBUS == 7
SIGFPE == 8
SIGUSR1 == 10
SIGSEGV == 11

\* the hardware-fault signals, which an instruction can raise synchronously
FaultSignals == {SIGSEGV, SIGBUS, SIGFPE, SIGILL}
\* the signals whose disposition the model tracks
Signals == FaultSignals \cup {SIGABRT, SIGUSR1}
\* values a direct caller passes to handler(sig): a registered signal and
\* two values outside the four
SigValues == {SIGSEGV, SIGUSR1, 0}

BlockLines == 17      \* eprintln! calls of one diagnostic block

VARIABLES
    unix,        \* TRUE: built with cfg(unix); FALSE: cfg(not(unix))
    pid,         \* std::process::id()
    CAUGHT,      \* static CAUGHT: AtomicBool
    disposition, \* signal -> "SIG_DFL" | "handler"
    trap,        \* thread -> signal its current user instruction raises, or 0
    stack,       \* thread -> sequence of invocation ids, innermost last
    inv,         \* sequence of handler invocations, in order of entry:
                 \*   thread, sig: where and with what handler was entered
                 \*   pc: "swap" | "abort" | "aborted" | "print" | "read" | "returned"
                 \*   line: the eprintln! of the block it is at
                 \*   swapped, old: whether it ran the swap, and what it returned
                 \*   name: its local sig_name;  rd: what its read returned
    stderr,      \* writer -> the eprintln! outputs it wrote, in order;
                 \* writer 0 is install(), writer i the i-th invocation
    stdinFd,     \* bytes waiting in file descriptor 0
    stdinState,  \* "open" | "eof" | "err"
    stdinBuf,    \* bytes held by std::io::Stdin's buffer
    installs,    \* calls of install() made so far
    proc         \* [state, sig]: how the process ended, if it has

vars == <<unix, pid, CAUGHT, disposition, trap, stack, inv, stderr,
          stdinFd, stdinState, stdinBuf, installs, proc>>

\* ---- helpers ----
Running == proc.state = "running"

Top(t) == stack[t][Len(stack[t])]

\* the signals blocked on thread t: those whose handler is running on it
Blocked(t) == {inv[stack[t][k]].sig : k \in 1..Len(stack[t])}

\* replace field values of invocation id
SetInv(id, r) == [inv EXCEPT ![id] = r]

\* variant of the start: handler is registered when the program is loaded,
\* before any call of install()
Init_registered ==
    /\ unix \in BOOLEAN
    /\ pid \in Pids
    /\ CAUGHT = FALSE
    /\ disposition = [s \in Signals |->
                         IF s \in FaultSignals THEN "handler" ELSE "SIG_DFL"]
    /\ trap = [t \in Threads |-> 0]
    /\ stack = [t \in Threads |-> <<>>]
    /\ inv = <<>>
    /\ stderr = [w \in 0..MaxEntries |-> <<>>]
    /\ stdinFd = <<>>
    /\ stdinState = "open"
    /\ stdinBuf = <<>>
    /\ installs = 0
    /\ proc = [state |-> "running", sig |-> 0]

\* line 15: static CAUGHT = AtomicBool::new(false); no handler installed,
\* nothing printed, stdin open and empty
Init ==
    /\ unix \in BOOLEAN
    /\ pid \in Pids
    /\ CAUGHT = FALSE
    /\ disposition = [s \in Signals |-> "SIG_DFL"]
    /\ trap = [t \in Threads |-> 0]
    /\ stack = [t \in Threads |-> <<>>]
    /\ inv = <<>>
    /\ stderr = [w \in 0..MaxEntries |-> <<>>]
    /\ stdinFd = <<>>
    /\ stdinState = "open"
    /\ stdinBuf = <<>>
    /\ installs = 0
    /\ proc = [state |-> "running", sig |-> 0]

\* ---- handler: lines 17-51 ----

\* variants of swap: a plain load, and a fetch_xor
swap_load(flag, new) == [old |-> flag, flag |-> flag]

swap_xor(flag, new) == [old |-> flag, flag |-> (flag # new)]

\* line 19: AtomicBool::swap(new): the value read and the value stored,
\* in one indivisible step
swap(flag, new) == [old |-> flag, flag |-> new]

\* variants of the branch: the condition negated, and the abort left out
AfterSwap_negated(old) == IF old THEN "print" ELSE "abort"

AfterSwap_noabort(old) == "print"

\* lines 19-21: the branch on the value swap returned
AfterSwap(old) == IF old THEN "abort" ELSE "print"

\* variants of the match: two arms exchanged, and no fallback label
sig_name_exchanged(sig) ==
    CASE sig = SIGSEGV -> "SIGBUS"
      [] sig = SIGBUS -> "SIGSEGV"
      [] sig = SIGFPE -> "SIGFPE"
      [] sig = SIGILL -> "SIGILL"
      [] OTHER -> "UNKNOWN"

sig_name_nofallback(sig) ==
    CASE sig = SIGSEGV -> "SIGSEGV"
      [] sig = SIGBUS -> "SIGBUS"
      [] sig = SIGFPE -> "SIGFPE"
      [] sig = SIGILL -> "SIGILL"
      [] OTHER -> ""

\* lines 23-29: match sig { ... }
sig_name(sig) ==
    CASE sig = SIGSEGV -> "SIGSEGV"
      [] sig = SIGBUS -> "SIGBUS"
      [] sig = SIGFPE -> "SIGFPE"
      [] sig = SIGILL -> "SIGILL"
      [] OTHER -> "UNKNOWN"

\* lines 31-47: what the i-th eprintln! of the block writes; the lines that
\* interpolate a value carry it, the others are fixed text
BlockLine(i, name, p) ==
    CASE i = 1 -> [text |-> "top", name |-> "", pid |-> 0]
      [] i = 2 -> [text |-> "CAUGHT", name |-> name, pid |-> 0]
      [] i = 4 -> [text |-> "PID", name |-> "", pid |-> p]
      [] i = 7 -> [text |-> "lldb -p", name |-> "", pid |-> p]
      [] i = 8 -> [text |-> "gdb -p", name |-> "", pid |-> p]
      [] i = 16 -> [text |-> "Press Enter", name |-> "", pid |-> 0]
      [] i = 17 -> [text |-> "bottom", name |-> "", pid |-> 0]
      [] OTHER -> [text |-> "box", name |-> "", pid |-> 0]

\* an eprintln! by invocation id (0: by install)
Emit(id, line) == [stderr EXCEPT ![id] = Append(@, line)]

\* line 17: the kernel (or a caller) enters handler(sig) on thread t
Enter(t, s) ==
    /\ Len(inv) < MaxEntries
    /\ inv' = Append(inv, [thread |-> t, sig |-> s, pc |-> "swap", line |-> 0,
                           swapped |-> FALSE, old |-> FALSE, name |-> "",
                           rd |-> "none"])
    /\ stack' = [stack EXCEPT ![t] = Append(@, Len(inv) + 1)]

\* line 19 (with the match of lines 23-29, which touches no shared state)
HandlerSwap(t) ==
    /\ Running
    /\ stack[t] # <<>>
    /\ inv[Top(t)].pc = "swap"
    /\ LET r == swap(CAUGHT, TRUE)
           f == inv[Top(t)]
       IN /\ CAUGHT' = r.flag
          /\ inv' = SetInv(Top(t), [f EXCEPT !.swapped = TRUE, !.old = r.old,
                                     !.pc = AfterSwap(r.old),
                                     !.line = IF AfterSwap(r.old) = "print" THEN 1 ELSE 0,
                                     !.name = IF AfterSwap(r.old) = "print"
                                              THEN sig_name(f.sig) ELSE ""])
    /\ UNCHANGED <<unix, pid, disposition, trap, stack, stderr,
                   stdinFd, stdinState, stdinBuf, installs, proc>>

\* variant of the guard: a re-entrant invocation returns instead of aborting
HandlerAbort_return(t) ==
    /\ Running
    /\ stack[t] # <<>>
    /\ inv[Top(t)].pc = "abort"
    /\ inv' = SetInv(Top(t), [inv[Top(t)] EXCEPT !.pc = "returned"])
    /\ stack' = [stack EXCEPT ![t] = SubSeq(@, 1, Len(@) - 1)]
    /\ UNCHANGED <<unix, pid, CAUGHT, disposition, trap, stderr,
                   stdinFd, stdinState, stdinBuf, installs, proc>>

\* line 20: std::process::abort() ends the process with SIGABRT
HandlerAbort(t) ==
    /\ Running
    /\ stack[t] # <<>>
    /\ inv[Top(t)].pc = "abort"
    /\ inv' = SetInv(Top(t), [inv[Top(t)] EXCEPT !.pc = "aborted"])
    /\ proc' = [state |-> "aborted", sig |-> SIGABRT]
    /\ UNCHANGED <<unix, pid, CAUGHT, disposition, trap, stack, stderr,
                   stdinFd, stdinState, stdinBuf, installs>>

\* variant of the block: the read begins before the closing line is written
HandlerPrint_early(t) ==
    /\ Running
    /\ stack[t] # <<>>
    /\ inv[Top(t)].pc = "print"
    /\ LET f == inv[Top(t)]
       IN /\ stderr' = Emit(Top(t), BlockLine(f.line, f.name, pid))
          /\ inv' = SetInv(Top(t),
                       IF f.line < BlockLines - 1
                       THEN [f EXCEPT !.line = f.line + 1]
                       ELSE [f EXCEPT !.pc = "read"])
    /\ UNCHANGED <<unix, pid, CAUGHT, disposition, trap, stack,
                   stdinFd, stdinState, stdinBuf, installs, proc>>

\* lines 31-47: one eprintln! of the block
HandlerPrint(t) ==
    /\ Running
    /\ stack[t] # <<>>
    /\ inv[Top(t)].pc = "print"
    /\ LET f == inv[Top(t)]
       IN /\ stderr' = Emit(Top(t), BlockLine(f.line, f.name, pid))
          /\ inv' = SetInv(Top(t),
                       IF f.line < BlockLines
                       THEN [f EXCEPT !.line = f.line + 1]
                       ELSE [f EXCEPT !.pc = "read"])
    /\ UNCHANGED <<unix, pid, CAUGHT, disposition, trap, stack,
                   stdinFd, stdinState, stdinBuf, installs, proc>>

\* variant of the read: one that does not wait
ReadReady_nowait == TRUE

\* variant of the read: it returns only once a line feed has arrived
ReadReady_newline ==
    \/ \E k \in 1..Len(stdinBuf) : stdinBuf[k] = 10
    \/ \E k \in 1..Len(stdinFd) : stdinFd[k] = 10
    \/ stdinState # "open"

\* line 50: std::io::stdin().read(&mut buf) with a one-byte buf.  Stdin is
\* buffered: bytes already in its buffer are served first; an empty buffer is
\* refilled from the descriptor with everything waiting there, and one byte
\* is handed to buf.  With nothing buffered, a failing descriptor gives Err,
\* a closed one Ok(0), and an open empty one blocks.
ReadReady == stdinBuf # <<>> \/ stdinFd # <<>> \/ stdinState # "open"

ReadResult ==
    IF stdinBuf # <<>> THEN "ok1"
    ELSE IF stdinState = "err" THEN "err"
    ELSE IF stdinFd # <<>> THEN "ok1"
    ELSE "ok0"

\* variant of the read: when it returns the flag is cleared for the next fault
HandlerRead_rearm(t) ==
    /\ Running
    /\ stack[t] # <<>>
    /\ inv[Top(t)].pc = "read"
    /\ ReadReady
    /\ IF stdinBuf # <<>>
       THEN /\ stdinBuf' = Tail(stdinBuf)
            /\ UNCHANGED stdinFd
       ELSE IF stdinState # "err" /\ stdinFd # <<>>
       THEN /\ stdinBuf' = Tail(stdinFd)
            /\ stdinFd' = <<>>
       ELSE UNCHANGED <<stdinBuf, stdinFd>>
    /\ inv' = SetInv(Top(t), [inv[Top(t)] EXCEPT !.pc = "returned", !.rd = ReadResult])
    /\ stack' = [stack EXCEPT ![t] = SubSeq(@, 1, Len(@) - 1)]
    /\ CAUGHT' = FALSE
    /\ UNCHANGED <<unix, pid, disposition, trap, stderr,
                   stdinState, installs, proc>>

\* variant of the read: its result is unwrapped, and an Err ends the process
HandlerRead_unwrap(t) ==
    /\ Running
    /\ stack[t] # <<>>
    /\ inv[Top(t)].pc = "read"
    /\ ReadReady
    /\ IF stdinBuf # <<>>
       THEN /\ stdinBuf' = Tail(stdinBuf)
            /\ UNCHANGED stdinFd
       ELSE IF stdinState # "err" /\ stdinFd # <<>>
       THEN /\ stdinBuf' = Tail(stdinFd)
            /\ stdinFd' = <<>>
       ELSE UNCHANGED <<stdinBuf, stdinFd>>
    /\ IF ReadResult = "err"
       THEN /\ inv' = SetInv(Top(t), [inv[Top(t)] EXCEPT !.pc = "aborted", !.rd = "err"])
            /\ proc' = [state |-> "aborted", sig |-> SIGABRT]
            /\ UNCHANGED stack
       ELSE /\ inv' = SetInv(Top(t), [inv[Top(t)] EXCEPT !.pc = "returned", !.rd = ReadResult])
            /\ stack' = [stack EXCEPT ![t] = SubSeq(@, 1, Len(@) - 1)]
            /\ UNCHANGED proc
    /\ UNCHANGED <<unix, pid, CAUGHT, disposition, trap, stderr,
                   stdinState, installs>>

\* lines 49-51: the read returns, its result is dropped, handler returns
HandlerRead(t) ==
    /\ Running
    /\ stack[t] # <<>>
    /\ inv[Top(t)].pc = "read"
    /\ ReadReady
    /\ IF stdinBuf # <<>>
       THEN /\ stdinBuf' = Tail(stdinBuf)
            /\ UNCHANGED stdinFd
       ELSE IF stdinState # "err" /\ stdinFd # <<>>
       THEN /\ stdinBuf' = Tail(stdinFd)
            /\ stdinFd' = <<>>
       ELSE UNCHANGED <<stdinBuf, stdinFd>>
    /\ inv' = SetInv(Top(t), [inv[Top(t)] EXCEPT !.pc = "returned", !.rd = ReadResult])
    /\ stack' = [stack EXCEPT ![t] = SubSeq(@, 1, Len(@) - 1)]
    /\ UNCHANGED <<unix, pid, CAUGHT, disposition, trap, stderr,
                   stdinState, installs, proc>>

\* ---- install: lines 55-63 (unix), 68-70 (not unix) ----

\* variant of the registration: one that flips the disposition
signal_flip(disp, sig) ==
    [disp EXCEPT ![sig] = IF @ = "handler" THEN "SIG_DFL" ELSE "handler"]

\* libc::signal(sig, handler as usize): the disposition after the call
signal(disp, sig) == [disp EXCEPT ![sig] = "handler"]

\* variant of the four calls: SIGABRT where SIGILL belongs
Register_abrt(disp) ==
    signal(signal(signal(signal(disp, SIGSEGV), SIGBUS), SIGFPE), SIGABRT)

\* lines 57-60: the four libc::signal calls, in order
Register(disp) ==
    signal(signal(signal(signal(disp, SIGSEGV), SIGBUS), SIGFPE), SIGILL)

\* a thread can run its user-level code when no handler runs on top of it
\* and its current instruction does not trap
AtUserLevel(t) == stack[t] = <<>> /\ trap[t] = 0

\* lines 55-63: install() on thread t
Install(t) ==
    /\ Running
    /\ unix
    /\ AtUserLevel(t)
    /\ installs < MaxInstalls
    /\ disposition' = Register(disposition)
    /\ stderr' = Emit(0, [text |-> "Installed", name |-> "", pid |-> pid])
    /\ installs' = installs + 1
    /\ UNCHANGED <<unix, pid, CAUGHT, trap, stack, inv,
                   stdinFd, stdinState, stdinBuf, proc>>

\* variant of install() without signals: it registers handler all the same
InstallNotUnix_registers(t) ==
    /\ Running
    /\ ~unix
    /\ AtUserLevel(t)
    /\ installs < MaxInstalls
    /\ disposition' = Register(disposition)
    /\ stderr' = Emit(0, [text |-> "Not available", name |-> "", pid |-> 0])
    /\ installs' = installs + 1
    /\ UNCHANGED <<unix, pid, CAUGHT, trap, stack, inv,
                   stdinFd, stdinState, stdinBuf, proc>>

\* lines 68-70: install() of the build without signals
InstallNotUnix(t) ==
    /\ Running
    /\ ~unix
    /\ AtUserLevel(t)
    /\ installs < MaxInstalls
    /\ stderr' = Emit(0, [text |-> "Not available", name |-> "", pid |-> 0])
    /\ installs' = installs + 1
    /\ UNCHANGED <<unix, pid, CAUGHT, disposition, trap, stack, inv,
                   stdinFd, stdinState, stdinBuf, proc>>

\* ---- the environment: faults, the operator, an external kill ----

\* the default action of every signal the model tracks ends the process
\* with that signal as its status
DefaultAction(s) == proc' = [state |-> "killed", sig |-> s]

\* variant of the delivery: the disposition is reset to the default
AfterDelivery_reset(disp, s) == [disp EXCEPT ![s] = "SIG_DFL"]

\* lines 57-60: a handler registered with libc::signal stays registered
\* when its signal is delivered
AfterDelivery(disp, s) == disp

\* what the kernel does with signal s arriving on thread t
Dispatch(t, s) ==
    IF disposition[s] = "handler"
    THEN /\ Enter(t, s)
         /\ disposition' = AfterDelivery(disposition, s)
         /\ UNCHANGED proc
    ELSE DefaultAction(s) /\ UNCHANGED <<inv, stack, disposition>>

\* the instruction thread t executes raises fault signal s.  In user code
\* the instruction keeps trapping whenever it is executed again.  Inside
\* handler it is the printing code that can fault.  A fault signal raised
\* while it is blocked ends the process by its default action.
Fault(t, s) ==
    /\ Running
    /\ unix
    /\ IF stack[t] = <<>>
       THEN trap[t] = 0 /\ trap' = [trap EXCEPT ![t] = s]
       ELSE inv[Top(t)].pc = "print" /\ UNCHANGED trap
    /\ IF s \in Blocked(t)
       THEN DefaultAction(s) /\ UNCHANGED <<inv, stack, disposition>>
       ELSE Dispatch(t, s)
    /\ UNCHANGED <<unix, pid, CAUGHT, stderr,
                   stdinFd, stdinState, stdinBuf, installs>>

\* handler returned to the instruction that trapped: it traps again
Refault(t) ==
    /\ Running
    /\ stack[t] = <<>>
    /\ trap[t] # 0
    /\ Dispatch(t, trap[t])
    /\ UNCHANGED <<unix, pid, CAUGHT, trap, stderr,
                   stdinFd, stdinState, stdinBuf, installs>>

\* some invocation has called read and waits for it to return.  What stdin
\* holds is observed by the program only there, so the operator and the
\* stream act once a read is pending: input that was there before is input
\* that arrives as soon as the read starts.
ReadPending == \E t \in Threads : stack[t] # <<>> /\ inv[Top(t)].pc = "read"

\* the operator types a byte
OperatorInput(b) ==
    /\ Running
    /\ ReadPending
    /\ stdinState = "open"
    /\ Len(stdinFd) + Len(stdinBuf) < MaxInput
    /\ stdinFd' = Append(stdinFd, b)
    /\ UNCHANGED <<unix, pid, CAUGHT, disposition, trap, stack, inv,
                   stderr, stdinState, stdinBuf, installs, proc>>

\* stdin reaches end of file, or starts failing
StdinEnds(how) ==
    /\ Running
    /\ ReadPending
    /\ stdinState = "open"
    /\ stdinState' = how
    /\ UNCHANGED <<unix, pid, CAUGHT, disposition, trap, stack, inv,
                   stderr, stdinFd, stdinBuf, installs, proc>>

\* the process is killed from outside (the status is whatever the killer
\* chose, and is not tracked)
ExternalKill ==
    /\ Running
    /\ proc' = [state |-> "extkilled", sig |-> 0]
    /\ UNCHANGED <<unix, pid, CAUGHT, disposition, trap, stack, inv,
                   stderr, stdinFd, stdinState, stdinBuf, installs>>

Next ==
    \/ \E t \in Threads : HandlerSwap(t)
    \/ \E t \in Threads : HandlerAbort(t)
    \/ \E t \in Threads : HandlerPrint(t)
    \/ \E t \in Threads : HandlerRead(t)
    \/ \E t \in Threads : Install(t)
    \/ \E t \in Threads : InstallNotUnix(t)
    \/ \E t \in Threads, s \in FaultSignals : Fault(t, s)
    \/ \E t \in Threads : Refault(t)
    \/ \E b \in Bytes : OperatorInput(b)
    \/ \E how \in {"eof", "err"} : StdinEnds(how)
    \/ ExternalKill

Spec == Init /\ [][Next]_vars

\* the program under a fair scheduler: a thread that is inside handler at
\* the test-and-set or at the abort goes on executing it, and a thread that
\* handler returned to executes the instruction that trapped again
SpecFair ==
    /\ Spec
    /\ \A t \in Threads : WF_vars(HandlerSwap(t))
    /\ \A t \in Threads : WF_vars(HandlerAbort(t))
    /\ \A t \in Threads : WF_vars(Refault(t))

\* ---- handler called as a plain function ----

\* a harness on thread t calls handler(s) directly, with any value of sig
DirectCall(t, s) ==
    /\ Running
    /\ unix
    /\ AtUserLevel(t)
    /\ Enter(t, s)
    /\ UNCHANGED <<unix, pid, CAUGHT, disposition, trap, stderr,
                   stdinFd, stdinState, stdinBuf, installs, proc>>

NextHarness ==
    \/ \E t \in Threads, s \in SigValues : DirectCall(t, s)
    \/ \E t \in Threads : HandlerSwap(t)
    \/ \E t \in Threads : HandlerAbort(t)
    \/ \E t \in Threads : HandlerPrint(t)
    \/ \E t \in Threads : HandlerRead(t)
    \/ \E b \in Bytes : OperatorInput(b)
    \/ \E how \in {"eof", "err"} : StdinEnds(how)

SpecHarness == Init /\ [][NextHarness]_vars

\* ---- the program after install(), with an operator who types more ----

MaxTyped == 2         \* bytes the operator types ahead

\* the state once the program has called install() once on unix
InitInstalled ==
    /\ unix = TRUE
    /\ pid \in Pids
    /\ CAUGHT = FALSE
    /\ disposition = Register([s \in Signals |-> "SIG_DFL"])
    /\ trap = [t \in Threads |-> 0]
    /\ stack = [t \in Threads |-> <<>>]
    /\ inv = <<>>
    /\ stderr = [w \in 0..MaxEntries |->
                    IF w = 0 THEN <<[text |-> "Installed", name |-> "", pid |-> pid]>>
                    ELSE <<>>]
    /\ stdinFd = <<>>
    /\ stdinState = "open"
    /\ stdinBuf = <<>>
    /\ installs = 1
    /\ proc = [state |-> "running", sig |-> 0]

\* the operator types a byte, up to MaxTyped bytes ahead of the read
OperatorTypes(b) ==
    /\ Running
    /\ ReadPending
    /\ stdinState = "open"
    /\ Len(stdinFd) + Len(stdinBuf) < MaxTyped
    /\ stdinFd' = Append(stdinFd, b)
    /\ UNCHANGED <<unix, pid, CAUGHT, disposition, trap, stack, inv,
                   stderr, stdinState, stdinBuf, installs, proc>>

NextTyped ==
    \/ \E t \in Threads : HandlerSwap(t)
    \/ \E t \in Threads : HandlerAbort(t)
    \/ \E t \in Threads : HandlerPrint(t)
    \/ \E t \in Threads : HandlerRead(t)
    \/ \E t \in Threads, s \in FaultSignals : Fault(t, s)
    \/ \E t \in Threads : Refault(t)
    \/ \E b \in Bytes : OperatorTypes(b)
    \/ \E how \in {"eof", "err"} : StdinEnds(how)

SpecTyped == InitInstalled /\ [][NextTyped]_vars

\* ---- properties ----

Ids == 1..Len(inv)

\* the invocations that went past the test-and-set into the print-and-pause
\* part of handler
PastSwap == {i \in Ids : inv[i].pc \in {"print", "read", "returned"}}

\* the invocations that wrote to stderr
Writers == {i \in Ids : stderr[i] # <<>>}

\* C1: first-wins mutual exclusion: at most one invocation ever gets past the
\* test-and-set on CAUGHT into the print-and-pause part; every other
\* invocation that ran the swap is on the abort branch; never two invocations
\* printing and never two waiting on stdin.
C1_FirstWins ==
    /\ Cardinality(PastSwap) <= 1
    /\ \A i \in Ids : inv[i].swapped /\ i \notin PastSwap
                        => inv[i].pc \in {"abort", "aborted"}
    /\ Cardinality(Writers) <= 1
    /\ Writers \subseteq PastSwap
    /\ Cardinality({i \in Ids : inv[i].pc = "read"}) <= 1

\* one invocation pauses in the read while another thread's invocation is
\* on the abort branch
C1_Witness ==
    \E i, j \in Ids :
        /\ inv[i].pc = "read"
        /\ inv[j].pc = "abort"
        /\ inv[i].thread # inv[j].thread
        /\ Running

\* C2: re-entrancy: an invocation that finds CAUGHT already true at its
\* test-and-set goes to abort and nowhere else, ends the process by abort
\* (status SIGABRT), and neither writes a line nor reads stdin.
C2_Reentrancy ==
    [][\A i \in Ids :
          /\ (CAUGHT /\ inv[i].pc = "swap") => inv'[i].pc \in {"swap", "abort"}
          /\ inv[i].pc = "abort" =>
                /\ inv'[i].pc \in {"abort", "aborted"}
                /\ inv'[i].pc = "aborted" =>
                      proc' = [state |-> "aborted", sig |-> SIGABRT]
          /\ inv'[i].pc \in {"abort", "aborted"} =>
                stderr'[i] = <<>> /\ inv'[i].rd = "none"]_vars

\* an invocation entered after the flag was set has aborted the process
C2_Witness ==
    \E i \in Ids :
        /\ inv[i].pc = "aborted"
        /\ inv[i].old
        /\ proc.state = "aborted"
        /\ \E j \in Ids : j < i /\ inv[j].pc = "read"

\* C3: CAUGHT starts false, goes from false to true at most once, by the
\* first invocation to run the swap, and no step sets it back to false.
C3_FlagOnce ==
    /\ CAUGHT = FALSE
    /\ [][/\ CAUGHT => CAUGHT'
          /\ CAUGHT' # CAUGHT =>
                /\ \A i \in Ids : ~inv[i].swapped
                /\ Cardinality({i \in Ids : inv'[i].swapped}) = 1]_vars

\* the flag is still true after the pause has been left, a second swap has
\* run and install has been called again
C3_Witness ==
    /\ CAUGHT
    /\ \E i, j \in Ids : i # j /\ inv[i].pc = "returned" /\ inv[j].swapped
    /\ installs >= 2

\* invocation i is paused in the read
Paused(i) == Running /\ inv[i].pc = "read"

\* stdin is open and holds nothing
NoInput == stdinFd = <<>> /\ stdinBuf = <<>> /\ stdinState = "open"

\* the name each registered signal is to be shown with
RegisteredName(s) ==
    IF s = SIGSEGV THEN "SIGSEGV"
    ELSE IF s = SIGBUS THEN "SIGBUS"
    ELSE IF s = SIGFPE THEN "SIGFPE"
    ELSE "SIGILL"

\* what invocation i wrote names nm, and nothing else, as the signal
NamesSignal(i, nm) ==
    \A k \in 1..Len(stderr[i]) :
        IF k = 2
        THEN stderr[i][k].text = "CAUGHT" /\ stderr[i][k].name = nm
        ELSE stderr[i][k].name = ""

\* what invocation i wrote shows the process id where the block has it
ShowsPid(i) ==
    \A k \in 1..Len(stderr[i]) :
        IF k \in {4, 7, 8}
        THEN stderr[i][k].pid = pid /\ stderr[i][k].text # "box"
        ELSE stderr[i][k].pid = 0

\* invocation i is writing its block line by line, or has written all of it
\* and is in (or back from) the read
BlockThenRead(i) ==
    /\ inv[i].pc \in {"print", "read", "returned"}
    /\ inv[i].pc = "print" => Len(stderr[i]) = inv[i].line - 1
    /\ inv[i].pc \in {"read", "returned"} => Len(stderr[i]) = BlockLines
    /\ inv[i].pc = "returned" <=> inv[i].rd # "none"

\* C4: a delivery of one of the four registered signals that reaches the
\* test-and-set first flips CAUGHT to true, writes a block that names exactly
\* the delivered signal and shows the process id, and then sits in the read
\* until it returns.
C4_FirstDelivery ==
    \A i \in Ids :
        inv[i].sig \in FaultSignals /\ inv[i].swapped =>
            /\ (\A j \in Ids \ {i} : ~inv[j].swapped) => ~inv[i].old
            /\ ~inv[i].old =>
                  /\ CAUGHT
                  /\ NamesSignal(i, RegisteredName(inv[i].sig))
                  /\ ShowsPid(i)
                  /\ BlockThenRead(i)
                  /\ (Paused(i) /\ NoInput) => ~ENABLED HandlerRead(inv[i].thread)

\* SIGFPE was delivered after install, its whole block is out and the thread
\* is blocked in the read with nothing to read
C4_Witness ==
    \E i \in Ids :
        /\ inv[i].sig = SIGFPE
        /\ inv[i].pc = "read"
        /\ Len(stderr[i]) = BlockLines
        /\ stderr[i][2].name = "SIGFPE"
        /\ stderr[i][4].pid = pid
        /\ installs >= 1
        /\ Paused(i) /\ NoInput

\* the process has ended, and not because it was killed from outside
EndedByItself == proc.state \in {"aborted", "killed"}

\* C5 as stated: once the first fault's invocation has printed, read and
\* returned, the process ends by the default action of the original signal,
\* with that signal as its status, and not by the abort path.  (Taken where
\* no other thread has faulted.)
C5_Original ==
    \A i \in Ids :
        /\ inv[i].pc = "returned"
        /\ \A j \in Ids : inv[j].thread = inv[i].thread
        /\ EndedByItself
        => proc = [state |-> "killed", sig |-> inv[i].sig]

\* C5 (amended): once the first fault's invocation has printed, read and
\* returned, CAUGHT is still true and handler is still installed for the
\* signal; the instruction traps again, every other invocation that runs the
\* swap finds the flag set, and if the process ends by itself it ends by the
\* abort path with status SIGABRT.
C5_ReturnThenAbort ==
    \A i \in Ids :
        inv[i].pc = "returned" =>
            /\ CAUGHT
            /\ disposition[inv[i].sig] = "handler"
            /\ stack[inv[i].thread] = <<>> => trap[inv[i].thread] = inv[i].sig
            /\ \A j \in Ids \ {i} : inv[j].swapped => inv[j].old
            /\ EndedByItself => proc = [state |-> "aborted", sig |-> SIGABRT]

\* the operator pressed a key, handler returned, the same instruction
\* trapped again on the same thread and that invocation aborted the process
C5_Witness ==
    \E i, j \in Ids :
        /\ i < j
        /\ inv[i].pc = "returned" /\ inv[i].rd = "ok1"
        /\ inv[j].thread = inv[i].thread /\ inv[j].sig = inv[i].sig
        /\ inv[j].pc = "aborted"
        /\ proc = [state |-> "aborted", sig |-> SIGABRT]

\* C6 as stated: with a signal delivered on two threads and no input, once
\* the loser has aborted the process exactly one block is on stderr, the
\* winner's, and the loser wrote nothing.
C6_Original ==
    \A i, j \in Ids :
        /\ inv[i].thread # inv[j].thread
        /\ inv[i].swapped /\ ~inv[i].old
        /\ inv[j].pc = "aborted"
        /\ NoInput
        => /\ Len(stderr[i]) = BlockLines
           /\ Writers = {i}

\* C6 (amended): with a signal delivered on two threads, at most one block is
\* printed: only the winner writes, at most the lines of one block (the block
\* is cut short when the loser aborts first), and the loser goes to abort
\* without writing a line or reading.
C6_AtMostOneBlock ==
    \A i, j \in Ids :
        /\ inv[i].thread # inv[j].thread
        /\ inv[i].swapped /\ inv[j].swapped
        => /\ inv[i].old \/ inv[j].old
           /\ \E w \in Ids : inv[w].swapped /\ ~inv[w].old /\ Writers \subseteq {w}
           /\ \A k \in {i, j} :
                 IF inv[k].old
                 THEN /\ inv[k].pc \in {"abort", "aborted"}
                      /\ stderr[k] = <<>>
                      /\ inv[k].rd = "none"
                 ELSE /\ Len(stderr[k]) <= BlockLines
                      /\ NamesSignal(k, RegisteredName(inv[k].sig))

\* the loser aborted the process while the winner, on another thread, was
\* in the middle of its block
C6_Witness ==
    \E i, j \in Ids :
        /\ inv[i].thread # inv[j].thread
        /\ inv[i].pc = "print"
        /\ Len(stderr[i]) > 0 /\ Len(stderr[i]) < BlockLines
        /\ inv[j].pc = "aborted"
        /\ stderr[j] = <<>>
        /\ NoInput

\* stdin has something that makes a read return: a byte, end of file or a
\* failure
StdinReturns == stdinBuf # <<>> \/ stdinFd # <<>> \/ stdinState \in {"eof", "err"}

\* C7 as stated: the pause ends only by the read returning (input, or stdin
\* closing or failing) or by the process being terminated from outside.
C7_Original ==
    [][\A i \in Ids :
          Paused(i) /\ ~Paused(i)' =>
              \/ inv'[i].pc = "returned" /\ StdinReturns
              \/ proc'.state = "extkilled"]_vars

\* C7 (amended): the pause ends only by the read returning (input, or stdin
\* closing or failing), by the process being terminated from outside, or by
\* another handler invocation aborting the process; there is no timeout.
C7_PauseEnds ==
    [][\A i \in Ids :
          Paused(i) /\ ~Paused(i)' =>
              \/ inv'[i].pc = "returned" /\ StdinReturns
              \/ proc'.state = "extkilled"
              \/ /\ proc' = [state |-> "aborted", sig |-> SIGABRT]
                 /\ \E j \in Ids \ {i} : inv[j].pc = "abort" /\ inv'[j].pc = "aborted"]_vars

\* a pause that ended because another invocation aborted the process
C7_Witness ==
    \E i, j \in Ids :
        /\ inv[i].pc = "read"
        /\ inv[j].pc = "aborted"
        /\ proc.state = "aborted"
        /\ NoInput

\* C8: an invocation with a signal value outside the four registered kinds
\* that finds CAUGHT false at its test-and-set resolves the name to
\* "UNKNOWN" and follows the normal path: the flag is set, the block is
\* written, the read is made and handler returns; it does not abort.
C8_UnknownSignal ==
    \A i \in Ids :
        inv[i].sig \notin FaultSignals /\ inv[i].swapped =>
            /\ (\A j \in Ids \ {i} : ~inv[j].swapped) => ~inv[i].old
            /\ ~inv[i].old =>
                  /\ CAUGHT
                  /\ inv[i].name = "UNKNOWN"
                  /\ NamesSignal(i, "UNKNOWN")
                  /\ ShowsPid(i)
                  /\ BlockThenRead(i)

\* handler(0) set the flag, wrote its block with the name UNKNOWN, read a
\* byte and returned, and the process is running
C8_Witness ==
    \E i \in Ids :
        /\ inv[i].sig = 0
        /\ inv[i].pc = "returned" /\ inv[i].rd = "ok1"
        /\ Len(stderr[i]) = BlockLines
        /\ stderr[i][2].name = "UNKNOWN"
        /\ CAUGHT
        /\ Running

\* C9: on unix a call of install() leaves each of SIGSEGV, SIGBUS, SIGFPE
\* and SIGILL with handler as its disposition, and leaves the disposition of
\* every other signal and the flag CAUGHT as they were.
C9_InstallFrame ==
    [][(unix /\ installs' # installs) =>
          /\ \A s \in FaultSignals : disposition'[s] = "handler"
          /\ \A s \in Signals \ FaultSignals : disposition'[s] = disposition[s]
          /\ CAUGHT' = CAUGHT]_vars

\* install() has run and the flag is set: the four signals have handler,
\* the others their default
C9_Witness ==
    /\ unix
    /\ installs >= 1
    /\ \A s \in FaultSignals : disposition[s] = "handler"
    /\ \A s \in Signals \ FaultSignals : disposition[s] = "SIG_DFL"
    /\ CAUGHT

\* the dispositions one call of install() leaves behind
AfterOneInstall ==
    [s \in Signals |-> IF s \in FaultSignals THEN "handler" ELSE "SIG_DFL"]

\* C10: install() is idempotent: before a second or later call, on whatever
\* thread, the dispositions are those a single call leaves, and the call
\* changes neither them nor CAUGHT.
C10_Idempotent ==
    [][(unix /\ installs >= 1 /\ installs' = installs + 1) =>
          /\ disposition = AfterOneInstall
          /\ disposition' = disposition
          /\ CAUGHT' = CAUGHT]_vars

\* install() was called twice, around a fault that set the flag
C10_Witness ==
    /\ unix
    /\ installs >= 2
    /\ disposition = AfterOneInstall
    /\ CAUGHT
    /\ \E i \in Ids : inv[i].pc = "read"

\* the line install() prints where signals are not available
Guidance == [text |-> "Not available", name |-> "", pid |-> 0]

\* C11: where signals are not available a call of install() changes no
\* disposition, raises no error (the process keeps running, CAUGHT stays as
\* it was, no invocation of handler appears), appends exactly one guidance
\* line to the standard error stream and returns to its caller.
C11_NotUnixInstall ==
    [][(~unix /\ installs' # installs) =>
          /\ disposition' = disposition
          /\ \A s \in Signals : disposition'[s] = "SIG_DFL"
          /\ stderr' = [stderr EXCEPT ![0] = Append(@, Guidance)]
          /\ proc' = proc /\ proc.state = "running"
          /\ CAUGHT' = CAUGHT /\ inv' = inv
          /\ \A t \in Threads : AtUserLevel(t)']_vars

\* install() has been called twice where signals are not available: two
\* guidance lines, every disposition the default, the program running
C11_Witness ==
    /\ ~unix
    /\ installs = 2
    /\ stderr[0] = <<Guidance, Guidance>>
    /\ \A s \in Signals : disposition[s] = "SIG_DFL"
    /\ Running
    /\ \A t \in Threads : AtUserLevel(t)

\* the read of invocation i returns in this step
ReadReturns(i) == inv[i].pc = "read" /\ inv'[i] # inv[i]

\* C12: a read on stdin that fails is treated as one that succeeds: whatever
\* the read gives (a byte, end of input, an error), the step in which it
\* returns is the return of handler to its caller: the process is not
\* aborted, nothing more is printed, CAUGHT is and stays TRUE, and the
\* invocation never reads again; a failed read takes nothing from stdin.
C12_FailedRead ==
    [][\A i \in Ids :
          /\ ReadReturns(i) =>
                /\ inv[i].rd = "none"
                /\ inv'[i].rd = ReadResult
                /\ inv'[i].rd \in {"ok1", "ok0", "err"}
                /\ inv'[i].pc = "returned"
                /\ stack'[inv[i].thread] =
                      SubSeq(stack[inv[i].thread], 1, Len(stack[inv[i].thread]) - 1)
                /\ proc' = proc /\ proc.state = "running"
                /\ stderr' = stderr
                /\ CAUGHT /\ CAUGHT'
                /\ inv'[i].rd = "err" => (stdinFd' = stdinFd /\ stdinBuf' = stdinBuf)
          /\ inv[i].pc = "returned" => inv'[i] = inv[i]]_vars

\* the read of the first fault's invocation failed and handler returned:
\* the block is complete, the flag set, the process still running, and
\* the thread is back at the instruction that trapped
C12_Witness ==
    \E i \in Ids :
        /\ inv[i].pc = "returned"
        /\ inv[i].rd = "err"
        /\ Len(stderr[i]) = BlockLines
        /\ stack[inv[i].thread] = <<>>
        /\ CAUGHT
        /\ Running

\* the invocations that reached the read
Readers == {i \in Ids : inv[i].pc = "read" \/ inv[i].rd # "none"}

\* an invocation is inside handler while the flag is set and has not yet
\* passed the test-and-set
EntryAfterCaught == CAUGHT /\ \E i \in Ids : inv[i].pc = "swap"

\* handler has returned to the instruction that trapped
HandlerReturned == \E i \in Ids : inv[i].pc = "returned"

\* C13: handler cannot loop.  Whatever the number of entries the model
\* allows, at most one invocation prints and at most one reads; under a
\* fair scheduler an entry made while CAUGHT is TRUE leads to the end of
\* the process, and so does the return of handler to the instruction that
\* trapped, which is executed again with handler still installed.
C13_NoLoop ==
    /\ [](Cardinality(Writers) <= 1 /\ Cardinality(Readers) <= 1)
    /\ ((EntryAfterCaught \/ HandlerReturned) ~> ~Running)

\* handler returned, the instruction trapped again with handler still
\* installed, and the new invocation found the flag set: it is about to abort
C13_Witness ==
    \E i, j \in Ids :
        /\ inv[i].pc = "returned"
        /\ inv[j].thread = inv[i].thread
        /\ inv[j].pc = "abort" /\ inv[j].old
        /\ disposition[inv[j].sig] = "handler"
        /\ trap[inv[j].thread] = inv[j].sig
        /\ Running

\* invocation j never printed, never read and is on the way to the abort
OnlyAborts(j) ==
    /\ inv[j].pc \in {"swap", "abort", "aborted"}
    /\ stderr[j] = <<>>
    /\ inv[j].rd = "none"

StdinStream == stdinBuf \o stdinFd

WholeBlock(i) ==
    /\ Len(stderr[i]) = BlockLines
    /\ \A k \in 1..BlockLines : stderr[i][k] = BlockLine(k, inv[i].name, pid)

\* C16: within an invocation that does not abort the steps are ordered.
\* Before its test-and-set an invocation has written nothing and read
\* nothing; a line is written only by an invocation that did the
\* test-and-set and found FALSE, one line a step, while it has not begun
\* the read; the read begins in the step that writes the last line; and
\* whenever a thread is in the read (or back from it) CAUGHT is TRUE and
\* its whole block is on stderr.
C16_Ordered ==
    /\ [](\A i \in Ids :
            /\ ~inv[i].swapped =>
                  (inv[i].pc = "swap" /\ stderr[i] = <<>> /\ inv[i].rd = "none")
            /\ stderr[i] # <<>> => (inv[i].swapped /\ ~inv[i].old /\ CAUGHT)
            /\ (inv[i].pc = "read" \/ inv[i].rd # "none") =>
                  (inv[i].swapped /\ ~inv[i].old /\ CAUGHT /\ WholeBlock(i)))
    /\ [][\A i \in Ids :
            /\ stderr'[i] # stderr[i] =>
                  /\ inv[i].swapped /\ inv[i].pc = "print" /\ inv[i].rd = "none"
                  /\ stderr'[i] = Append(stderr[i],
                                         BlockLine(Len(stderr[i]) + 1, inv[i].name, pid))
            /\ (inv[i].pc # "read" /\ inv'[i].pc = "read") =>
                  /\ inv[i].pc = "print"
                  /\ Len(stderr[i]) = BlockLines - 1
                  /\ Len(stderr'[i]) = BlockLines
            /\ (inv[i].pc = "swap" /\ inv'[i] # inv[i]) =>
                  (stderr[i] = <<>> /\ stderr' = stderr)]_vars

\* a thread is blocked in the read with nothing on stdin: the flag is set
\* and its whole block, closing line included, is on stderr
C16_Witness ==
    \E i \in Ids :
        /\ Paused(i)
        /\ NoInput
        /\ stack[inv[i].thread] = <<i>>
        /\ inv[i].swapped /\ ~inv[i].old
        /\ CAUGHT
        /\ WholeBlock(i)
        /\ stderr[i][BlockLines].text = "bottom"

\* thread t executes an instruction that traps in this step
Traps(t) == trap[t] = 0 /\ trap'[t] # 0

\* C17: a fault signal delivered before install() was called never runs
\* handler.  While install() has not been called every disposition is the
\* default, CAUGHT is FALSE, there is no invocation, nothing is on stderr and
\* nothing was read; a trap in such a state ends the process by the default
\* action of its signal and leaves all that as it was.  An invocation of
\* handler begins only for a signal whose disposition install() has set, and
\* every invocation there is is of such a signal.
C17_OnlyAfterInstall ==
    /\ [](installs = 0 =>
            /\ \A s \in Signals : disposition[s] = "SIG_DFL"
            /\ ~CAUGHT
            /\ inv = <<>>
            /\ \A w \in DOMAIN stderr : stderr[w] = <<>>
            /\ StdinStream = <<>> /\ stdinState = "open")
    /\ [](\A i \in Ids :
            /\ unix /\ installs >= 1
            /\ inv[i].sig \in FaultSignals
            /\ disposition[inv[i].sig] = "handler")
    /\ [][\A t \in Threads :
            (installs = 0 /\ Traps(t)) =>
                /\ proc' = [state |-> "killed", sig |-> trap'[t]]
                /\ trap'[t] \in FaultSignals
                /\ inv' = <<>> /\ ~CAUGHT' /\ stderr' = stderr]_vars
    /\ [][Len(inv') > Len(inv) =>
            /\ unix /\ installs >= 1
            /\ Len(inv') = Len(inv) + 1
            /\ disposition[inv'[Len(inv')].sig] = "handler"]_vars

\* a floating-point fault before any call of install(): the process was
\* ended by SIGFPE, the flag is FALSE, handler never ran, nothing was printed
C17_Witness ==
    /\ unix
    /\ installs = 0
    /\ proc = [state |-> "killed", sig |-> SIGFPE]
    /\ \E t \in Threads : trap[t] = SIGFPE
    /\ ~CAUGHT
    /\ inv = <<>>
    /\ \A w \in DOMAIN stderr : stderr[w] = <<>>

====
